---- MODULE Spec2Model ----
(***************************************************************************)
(* Batch session orchestration of the Amazon review agent:                 *)
(*   - AmazonBatchWorkflow (amazon_batch_workflow.py): the LangGraph state  *)
(*     machine open_session_and_login -> pick_next_asin -> scrape_product   *)
(*     -> sentiment -> themes -> build_report -> persist_result ->          *)
(*     advance_index -> ... -> finalize;                                    *)
(*   - SessionManager: the process-wide registry session id -> scraper;     *)
(*   - JobManager.run_job / JobManager.cancel (api/jobs.py) and the event   *)
(*     stream of api/server.py.                                             *)
(*                                                                         *)
(* One job is modelled.  A node of the graph is one action: its partial    *)
(* state update is merged into the BatchState variables and the router of  *)
(* its outgoing conditional edge picks the next node (pc).  Collaborator   *)
(* outcomes (navigation, extraction, file writes, ...) are drawn with \E.  *)
(*                                                                         *)
(* Spec and SpecRun follow one job through its whole workflow.  SpecJobs   *)
(* follows several jobs through their calls on the shared SessionManager   *)
(* and their writes of the HEADLESS environment variable,                  *)
(* and SpecParallel follows the tasks of AmazonParallelBatchWorkflow.run   *)
(* (amazon_parallel_batch_workflow.py) through the semaphore.              *)
(* SpecBlock is SpecRun on a site that blocks (_detect_auth_block), and     *)
(* SpecAdapter applies the analysis nodes of amazon_hybrid_workflow.py to  *)
(* the texts an LLM can answer with.  SpecNav follows one call of         *)
(* _goto_product_with_retries, and SpecFiles follows the files several     *)
(* jobs write to the output directory and what get_report_txt reads there. *)
(*                                                                         *)
(* job.queue is kept projected on the events that api/jobs.py itself puts  *)
(* (error, cancelled, _stream_end); the progress events a node emits are   *)
(* kept in `emitted` (the events of the latest node execution).            *)
(***************************************************************************)
EXTENDS Integers, Sequences, FiniteSets, TLC

\* ------------------------------------------------------------------ bounds
MaxLen == 2                 \* longest identifier list drawn in Init
Asins == {"A", "B"}         \* identifiers (non-empty strings)
NavFailBound == 1           \* a reachable product page fails to load in at
                            \* most this many consecutive scrape_product runs
BlockBound == 2             \* blocks one job meets

\* --------------------------------------------------------------- constants
RecursionLimit == 100       \* config["recursion_limit"] of run()
Null == "null"              \* Python None
Placeholder == "N/A"        \* the workflow's placeholder title
DefaultTitle == "Prodotto non trovato"   \* extract_product_info's default
session_id == "sess"        \* initial_state["session_id"] of run()

PageTitles == {"T", "N/A"}  \* texts a title element of a page can carry
Ratings == {0, 4}           \* rating_average values (0.0 = none found)

NavError == "Product navigation failed (after retries)"
CoreError == "Core product data missing"
ExcError == "exception"     \* str(e) of an exception caught in scrape_product

VARIABLES
    \* BatchState
    asins, i, auth_ok, current_asin, scraped_data, scraping_success,
    scraping_errors, sentiment_analysis, theme_analysis, final_report,
    results, retries,
    \* LangGraph run: next node and number of supersteps executed
    pc, steps,
    \* SessionManager._sessions and the browsers behind it
    sessions, browserStarts, openBrowsers,
    \* Job (api/jobs.py); queue is what was put on job.queue so far
    status, jobResults, queue, cancelRequested, cancelpc, swallowed,
    \* files written by finalize
    summary,
    \* events emitted by the latest node execution
    emitted,
    \* environment: the page of the current identifier cannot be reached
    unreachable,
    \* observation (history) variables
    attempts, navFails, analysisCalls, titleFound, routed, cancelAccepted,
    raised, logins,
    \* perform_login calls made by scrape_product's block recovery, and the
    \* blocks _detect_auth_block reported
    relogins, blocks,
    \* environment: the site answers some navigations with a login form, a
    \* captcha or an access-denied page
    site_blocks,
    \* _goto_product_with_retries: max_attempts, the loop variables attempt
    \* and url (as a position in urls), backoff, what the call did so far and
    \* what it returned
    max_attempts, attempt, url, backoff, nav_trace, nav_result,
    \* os.environ["HEADLESS"] == "true", the headless option of every job and
    \* the headless mode every browser was constructed with
    HEADLESS, joptions, bheadless,
    \* the clock of datetime.now() in seconds, the files of the output
    \* directory, the identifiers, cursor and status of every job that writes
    \* there, and the last answer of get_report
    clock, files, fasins, fi, fstatus, response,
    \* several jobs on the one SessionManager: each job's position, session
    \* id, the scraper open_session_and_login got and the one scrape_product
    \* got last
    jpc, jsid, jscraper, jused,
    \* AmazonParallelBatchWorkflow.run: max_parallel, the free slots of the
    \* semaphore and the position of run()
    max_parallel, sem, parpc,
    \* the analysis nodes of amazon_hybrid_workflow.py: the text the LLM
    \* chain returned and the value the node returned for it
    llm_output, analysis

stateVars == <<asins, i, auth_ok, current_asin, scraped_data, scraping_success,
               scraping_errors, sentiment_analysis, theme_analysis,
               final_report, results, retries>>
sessVars == <<sessions, browserStarts, openBrowsers>>
jobVars == <<status, jobResults, queue>>
cancelVars == <<cancelRequested, cancelpc, swallowed, cancelAccepted>>
histVars == <<attempts, navFails, analysisCalls, titleFound, routed>>

multiVars == <<jpc, jsid, jscraper, jused, max_parallel, sem, parpc>>
adapterVars == <<llm_output, analysis>>
blockVars == <<relogins, blocks>>
envVars == <<site_blocks>>
headlessVars == <<HEADLESS, joptions, bheadless>>
fileVars == <<clock, files, fasins, fi, fstatus, response>>
navVars == <<max_attempts, attempt, url, backoff, nav_trace, nav_result>>
\* the variables of one job and its workflow
oneJobVars == <<stateVars, pc, steps, jobVars, cancelVars, summary, emitted,
                unreachable, histVars, raised, logins, blockVars>>

vars == <<stateVars, pc, steps, sessVars, jobVars, cancelVars, summary,
          emitted, unreachable, histVars, raised, logins, multiVars,
          adapterVars, blockVars, envVars, navVars, headlessVars, fileVars>>

\* ------------------------------------------------------------------ values
SeqsUpTo(S, n) == UNION {[1..k -> S] : k \in 1..n}

EmptyData == [asin |-> Null, title |-> Null, rating_average |-> 0,
              reviews |-> 0]
NoReport == [title |-> Null, rating_average |-> 0, built |-> FALSE]

Nodes == {"open_session_and_login", "login", "pick_next_asin", "scrape_product",
          "sentiment_analysis", "theme_analysis", "build_report",
          "persist_result", "advance_index", "finalize"}

Ev(step, asin, st) == [step |-> step, asin |-> asin, status |-> st]

\* ------------------------------------------------------- pure definitions
\* pick_router: the conditional edge out of pick_next_asin
pick_router(idx, ids) == IF idx >= Len(ids) THEN "finalize" ELSE "scrape_product"

\* scrape_router: the conditional edge out of scrape_product
scrape_router(success, r) ==
    IF ~success
    THEN IF r < 1 THEN "scrape_product" ELSE "persist_result"
    ELSE "sentiment_analysis"

\* extract_product_info: the title of the returned record
ExtractedTitle(found, text) == IF found THEN text ELSE DefaultTitle

has_core_or(data) == data.title # Placeholder \/ data.rating_average > 0
\* has_core of scrape_product
has_core(data) == data.title # Placeholder /\ data.rating_average > 0

CurrentAsinFirst(ids, idx) == ids[1]
\* asins[i] of pick_next_asin (Python indexes from 0)
CurrentAsin(ids, idx) == ids[idx + 1]

\* the entry persist_result builds from the state
ResultEntry(asin, report, path, success, errors) ==
    [asin |-> asin,
     title |-> IF report.built THEN report.title ELSE Placeholder,
     rating_average |-> IF report.built THEN report.rating_average ELSE 0,
     path |-> path,
     success |-> success,
     errors |-> errors]

\* entry["success"] = bool(state.get("scraping_success", False)); the
\* workflow_success report_generation_node returns is not a key of BatchState
EntrySuccessWorkflow(success, data, sentiment) ==
    success /\ data.reviews > 0 /\ sentiment = "parsed"
EntrySuccess(success, data, sentiment) == success

AppendResultOnSuccess(rs, entry) == IF entry.success THEN Append(rs, entry) ELSE rs
\* current_results.append(entry) of persist_result
AppendResult(rs, entry) == Append(rs, entry)

\* the product_data part of report_generation_node's report
BuildReport(data) ==
    [title |-> IF data.title = Null THEN Placeholder ELSE data.title,
     rating_average |-> data.rating_average,
     built |-> TRUE]

\* the summary dict finalize builds
BatchSummary(rs) == [count |-> Len(rs), results |-> rs]
\* no summary built yet
NoSummary == [built |-> FALSE, written |-> FALSE, count |-> 0, results |-> <<>>]

\* ------------------------------------------------------------------- Init
\* a job as JobManager.create leaves it and the initial_state of run()
\* ------------------------------------------------ analysis nodes (hybrid)
\* sentiment_analysis_node and theme_analysis_node of
\* amazon_hybrid_workflow.py take the text the LLM chain returned, search it
\* with re.search(r'\{.*\}', result, re.DOTALL) and hand the match to
\* json.loads.  A text is a sequence of tokens: the two braces, "k" (a key
\* with its colon, "a":), "v" (a scalar value) and "t" (any other text).
MaxOut == 5                 \* longest LLM output, in tokens
Chars == {"{", "}", "k", "v", "t"}
OutputTexts == {<<>>} \cup SeqsUpTo(Chars, MaxOut)

NoMatch == <<>>             \* re.search returned None

\* r'\{.*\}' with DOTALL: `.*` is greedy and matches every character, so the
\* match goes from the first "{" to the last "}" of the text
json_match(result) ==
    LET opens == {p \in 1..Len(result) : result[p] = "{"}
        closes == {p \in 1..Len(result) : result[p] = "}"}
    IN IF opens = {} \/ closes = {}
       THEN NoMatch
       ELSE LET a == CHOOSE p \in opens : \A q \in opens : p <= q
                b == CHOOSE p \in closes : \A q \in closes : q <= p
            IN IF a < b THEN SubSeq(result, a, b) ELSE NoMatch

\* the texts json.loads accepts among those that start with "{": an object
\* with no member or with one member whose value is a scalar or an object
RECURSIVE IsJsonObject(_)
IsJsonObject(s) ==
    /\ Len(s) >= 2
    /\ s[1] = "{"
    /\ s[Len(s)] = "}"
    /\ LET inner == SubSeq(s, 2, Len(s) - 1)
       IN \/ inner = <<>>
          \/ /\ Len(inner) >= 2
             /\ inner[1] = "k"
             /\ (Tail(inner) = <<"v">> \/ IsJsonObject(Tail(inner)))

\* the dict json.loads returns for an accepted text: how deep its members
\* nest and what the innermost value is
RECURSIVE json_loads(_)
json_loads(s) ==
    IF Len(s) = 2 THEN [depth |-> 0, leaf |-> "empty"]
    ELSE IF Len(s) = 4 /\ s[3] = "v" THEN [depth |-> 1, leaf |-> "scalar"]
    ELSE LET in == json_loads(SubSeq(s, 3, Len(s) - 1))
         IN [depth |-> in.depth + 1, leaf |-> in.leaf]

NoValue == [depth |-> 0 - 1, leaf |-> Null]
NoAnalysis == [node |-> Null, kind |-> "none", value |-> NoValue,
               raw_response |-> <<>>, parsing_failed |-> FALSE]

\* the dict a node returns as its analysis; parsing_failed is FALSE when the
\* dict has no such key
ParsedAnalysis(node, m) ==
    [node |-> node, kind |-> "parsed", value |-> json_loads(m),
     raw_response |-> <<>>, parsing_failed |-> FALSE]
ErrorAnalysis(node) ==
    [node |-> node, kind |-> "error", value |-> NoValue,
     raw_response |-> <<>>, parsing_failed |-> FALSE]

\* sentiment_analysis_node from the LLM's answer on
SentimentOf(result) ==
    LET m == json_match(result)
    IN IF m # NoMatch /\ IsJsonObject(m)
       THEN ParsedAnalysis("sentiment", m)
       ELSE [node |-> "sentiment", kind |-> "fallback", value |-> NoValue,
             raw_response |-> result, parsing_failed |-> TRUE]

\* theme_analysis_node from the LLM's answer on
ThemesOf(result) ==
    LET m == json_match(result)
    IN IF m # NoMatch /\ IsJsonObject(m)
       THEN ParsedAnalysis("themes", m)
       ELSE [node |-> "themes", kind |-> "fallback", value |-> NoValue,
             raw_response |-> result, parsing_failed |-> FALSE]

\* the LLM call returns a text, runs into the 60 s timeout or raises
LlmOutcomes == {"text", "timeout", "raises"}

AdapterIdle ==
    /\ llm_output = <<>>
    /\ analysis = NoAnalysis

\* ------------------------------------------- _goto_product_with_retries
\* backoff is counted in 1/625 s, so that backoff *= 1.8 stays a whole number
\* for the attempts drawn
MaxClock == 1               \* seconds that pass while the jobs write
MaxAttempts == 3            \* largest max_attempts (scrape_product: 3 and 2)
NumUrls == 2                \* len(urls): /dp/{asin}, /gp/product/{asin}
InitialBackoff == 1250      \* backoff = 2.0

\* page.goto raises, wait_for_selector raises (no loaded signal) or the page
\* is loaded
TryOutcomes == {"goto_raises", "no_signal", "loaded"}

GotoEv(a, u, o) == [ev |-> "goto", attempt |-> a, url |-> u, outcome |-> o,
                    backoff |-> 0]
SleepEv(b) == [ev |-> "sleep", attempt |-> 0, url |-> 0, outcome |-> Null,
               backoff |-> b]

\* `return True` after wait_for_selector, otherwise the loop goes on
AfterTryGotoOnly(o) == IF o \in {"loaded", "no_signal"} THEN "true" ELSE "running"
AfterTry(o) == IF o = "loaded" THEN "true" ELSE "running"

\* backoff *= 1.8
NextBackoff(b) == (b * 9) \div 5

\* HEADLESS is not set when the process starts: os.getenv("HEADLESS",
\* "false") is "false"
HeadlessIdle ==
    /\ HEADLESS = FALSE
    /\ joptions = <<>>
    /\ bheadless = <<>>

Answer(j, asin, code, writer) ==
    [job |-> j, asin |-> asin, code |-> code, writer |-> writer]

\* get_report was not called
NoAnswer == Answer(0, "", 0, 0)

\* no job writes to the output directory
FilesIdle ==
    /\ clock = 0
    /\ files = {}
    /\ fasins = <<>>
    /\ fi = <<>>
    /\ fstatus = <<>>
    /\ response = NoAnswer

NavIdle ==
    /\ max_attempts = 0
    /\ attempt = 0
    /\ url = 0
    /\ backoff = 0
    /\ nav_trace = <<>>
    /\ nav_result = "idle"

InitWorkflow ==
    /\ i = 0
    /\ auth_ok = FALSE
    /\ current_asin = Null
    /\ scraped_data = EmptyData
    /\ scraping_success = FALSE
    /\ scraping_errors = <<>>
    /\ sentiment_analysis = Null
    /\ theme_analysis = Null
    /\ final_report = NoReport
    /\ results = <<>>
    /\ retries = 0
    /\ pc = "pending"
    /\ steps = 0
    /\ status = "pending"
    /\ jobResults = <<>>
    /\ queue = <<>>
    /\ cancelRequested = FALSE
    /\ cancelpc = "idle"
    /\ swallowed = FALSE
    /\ unreachable = FALSE
    /\ summary = NoSummary
    /\ emitted = <<>>
    /\ attempts = 0
    /\ navFails = 0
    /\ analysisCalls = 0
    /\ titleFound = FALSE
    /\ routed = Null
    /\ cancelAccepted = FALSE
    /\ raised = Null
    /\ logins = 0
    /\ relogins = 0
    /\ blocks = 0

\* SessionManager._sessions = {} and no browser
InitRegistry ==
    /\ sessions = <<>>
    /\ browserStarts = 0
    /\ openBrowsers = {}

\* one job, created by create_job for a non-empty list of identifiers
Init ==
    /\ asins \in SeqsUpTo(Asins, MaxLen)
    /\ InitWorkflow
    /\ InitRegistry
    /\ AdapterIdle
    /\ NavIdle
    /\ FilesIdle
    /\ HeadlessIdle
    /\ site_blocks = FALSE
    /\ jpc = <<>>
    /\ jsid = <<>>
    /\ jscraper = <<>>
    /\ jused = <<>>
    /\ sem = 0
    /\ max_parallel = 0
    /\ parpc = "idle"


\* ------------------------------------------------------- SessionManager
Remove(f, k) == [x \in DOMAIN f \ {k} |-> f[x]]
Put(f, k, v) == [x \in DOMAIN f \cup {k} |-> IF x = k THEN v ELSE f[x]]

SessionManager_get_always_new(sid, startOk) ==
    /\ browserStarts' = browserStarts + 1
    /\ IF startOk
       THEN /\ sessions' = Put(sessions, sid, browserStarts + 1)
            /\ openBrowsers' = openBrowsers \cup {browserStarts + 1}
       ELSE UNCHANGED <<sessions, openBrowsers>>

\* SessionManager.get: reuse the registered scraper, else construct one,
\* start its browser and register it (startOk: start_browser returns)
SessionManager_get(sid, startOk) ==
    IF sid \in DOMAIN sessions
    THEN UNCHANGED sessVars
    ELSE /\ browserStarts' = browserStarts + 1
         /\ IF startOk
            THEN /\ sessions' = Put(sessions, sid, browserStarts + 1)
                 /\ openBrowsers' = openBrowsers \cup {browserStarts + 1}
            ELSE UNCHANGED <<sessions, openBrowsers>>

SessionManager_close_then_pop(sid, closeOk) ==
    /\ sessions' = IF closeOk THEN Remove(sessions, sid) ELSE sessions
    /\ openBrowsers' = IF sid \in DOMAIN sessions /\ closeOk
                       THEN openBrowsers \ {sessions[sid]}
                       ELSE openBrowsers
    /\ UNCHANGED browserStarts

\* SessionManager.close: pop the scraper, then close its browser (closeOk:
\* close_browser returns; what it raises is caught and the browser may stay
\* open)
SessionManager_close(sid, closeOk) ==
    /\ sessions' = Remove(sessions, sid)
    /\ openBrowsers' = IF sid \in DOMAIN sessions /\ closeOk
                       THEN openBrowsers \ {sessions[sid]}
                       ELSE openBrowsers
    /\ UNCHANGED browserStarts

\* the scrapers in the registry
Registered == {sessions[k] : k \in DOMAIN sessions}

\* SessionManager.close_all: close every registered session (failed: the
\* scrapers whose close_browser raises)
SessionManager_close_all(failed) ==
    /\ sessions' = <<>>
    /\ openBrowsers' = openBrowsers \ (Registered \ failed)
    /\ UNCHANGED browserStarts

\* ---------------------------------------------------------------- run_job
\* the job task may take its next step: no cancellation is pending and the
\* graph has supersteps left
Runnable == ~cancelRequested /\ steps < RecursionLimit

\* except-branch and finally of run_job: an exception escaped wf.run
RunJobExcept(kind) ==
    /\ status' = "error"
    /\ queue' = queue \o <<"error", "_stream_end">>
    /\ pc' = "failed"
    /\ raised' = kind
    /\ UNCHANGED jobResults

\* run_job up to the start of the graph (ctorOk: AmazonBatchWorkflow(...)
\* returns; it is built outside run_job's try)
run_job_start ==
    /\ UNCHANGED <<unreachable, multiVars, adapterVars, envVars, fileVars, navVars, headlessVars, logins, blockVars>>
    /\ pc = "pending"
    /\ ~cancelRequested
    /\ status' = "running"
    /\ \E ctorOk \in BOOLEAN :
         IF ctorOk
         THEN pc' = "open_session_and_login" /\ UNCHANGED raised
         ELSE pc' = "crashed" /\ raised' = "RuntimeError"
    /\ UNCHANGED <<stateVars, steps, sessVars, jobResults, queue, cancelVars,
                   summary, emitted, histVars>>

\* LangGraph: the superstep budget is used up and a node is still to run
graph_recursion_error ==
    /\ UNCHANGED <<unreachable, multiVars, adapterVars, envVars, fileVars, navVars, headlessVars, logins, blockVars>>
    /\ pc \in Nodes \ {"login"}
    /\ ~cancelRequested
    /\ steps >= RecursionLimit
    /\ RunJobExcept("GraphRecursionError")
    /\ UNCHANGED <<stateVars, steps, sessVars, cancelVars, summary,
                   emitted, histVars>>

\* ------------------------------------------------------------------ nodes
\* open_session_and_login, up to SessionManager.get
open_session_and_login ==
    /\ UNCHANGED <<unreachable, multiVars, adapterVars, envVars, fileVars, navVars, headlessVars, logins, blockVars>>
    /\ pc = "open_session_and_login"
    /\ Runnable
    /\ steps' = steps + 1
    /\ emitted' = <<Ev("start_agent", Null, "running")>>
    /\ \E startOk \in BOOLEAN :
         /\ SessionManager_get(session_id, startOk)
         /\ IF startOk
            THEN /\ pc' = "login"
                 /\ UNCHANGED <<jobVars, raised>>
            ELSE RunJobExcept("start_browser")
    /\ UNCHANGED <<stateVars, cancelVars, summary, histVars>>

\* what perform_login does: it returns True or False, or it raises
LoginOutcomes == {"true", "false", "raises"}

AfterLoginOnlyIfOk(ok) == IF ok THEN "pick_next_asin" ELSE "finalize"
\* the edge open_session_and_login -> pick_next_asin of build_graph
AfterLogin(ok) == "pick_next_asin"

\* open_session_and_login, from perform_login on: whatever perform_login
\* raises is caught and auth_ok stays False
open_session_login ==
    /\ UNCHANGED <<unreachable, multiVars, adapterVars, envVars, fileVars, navVars, headlessVars, blockVars>>
    /\ logins' = logins + 1
    /\ pc = "login"
    /\ ~cancelRequested
    /\ swallowed' = FALSE
    /\ \E login \in LoginOutcomes :
         /\ auth_ok' = (login = "true")
         /\ emitted' = <<Ev("login", Null, "running"), Ev("login", Null, "done"),
                         Ev("start_agent", Null, "done")>>
         /\ pc' = AfterLogin(login = "true")
    /\ UNCHANGED <<asins, i, current_asin, scraped_data, scraping_success,
                   scraping_errors, sentiment_analysis, theme_analysis,
                   final_report, results, retries, steps, sessVars, jobVars,
                   cancelRequested, cancelpc, cancelAccepted, summary, histVars, raised>>

\* "final_report": None in the update of pick_next_asin
ResetReportKeep(report) == report
ResetReport(report) == NoReport

pick_next_asin ==
    /\ UNCHANGED <<multiVars, adapterVars, envVars, fileVars, navVars, headlessVars, logins, blockVars>>
    /\ pc = "pick_next_asin"
    /\ Runnable
    /\ steps' = steps + 1
    /\ IF i >= Len(asins)
       THEN /\ emitted' = <<>>
            /\ UNCHANGED <<current_asin, scraped_data, scraping_success,
                           scraping_errors, sentiment_analysis, theme_analysis,
                           final_report, retries, histVars, unreachable>>
       ELSE /\ current_asin' = CurrentAsin(asins, i)
            /\ emitted' = <<Ev("navigate_product", CurrentAsin(asins, i), "running")>>
            /\ scraped_data' = EmptyData
            /\ scraping_success' = FALSE
            /\ scraping_errors' = <<>>
            /\ sentiment_analysis' = Null
            /\ theme_analysis' = Null
            /\ final_report' = ResetReport(final_report)
            /\ retries' = 0
            /\ attempts' = 0
            /\ navFails' = 0
            /\ analysisCalls' = 0
            /\ titleFound' = FALSE
            /\ routed' = Null
            /\ \E u \in BOOLEAN : unreachable' = u
    /\ pc' = pick_router(i, asins)
    /\ UNCHANGED <<asins, i, auth_ok, results, sessVars, jobVars, cancelVars,
                   summary, raised>>

\* lines 274-282 of scrape_product: the reviews are extracted best-effort;
\* an exception of navigate_to_reviews or extract_reviews leaves the list
\* empty.  The number of reviews in scraped_data["reviews"].
ReviewOutcomes == {"raises", "none", "some"}
ReviewsExtracted(rev) == IF rev = "some" THEN 1 ELSE 0

\* scraping_errors has no reducer in BatchState: the update of a node
\* replaces the list
MergeErrorsAdd(old, new) == old \o new
MergeErrors(old, new) == new

\* lines 242-251 of scrape_product: navigation, and on a detected block one
\* more navigation after a re-login
NavOk(nav1, blocked, nav2) == nav1 \/ (blocked /\ nav2)

\* lines 243-250: the recovery (perform_login, then the second navigation) is
\* entered when the navigation failed and _detect_auth_block reports a block
RecoveryOnAnyFailure(nav1, blocked) == ~nav1
Recovery(nav1, blocked) == ~nav1 /\ blocked

scrape_product ==
    /\ UNCHANGED <<unreachable, multiVars, adapterVars, envVars, fileVars, navVars, headlessVars, logins>>
    /\ pc = "scrape_product"
    /\ Runnable
    /\ steps' = steps + 1
    /\ attempts' = attempts + 1
    /\ UNCHANGED analysisCalls
    /\ \E startOk \in BOOLEAN :
         /\ (swallowed \/ session_id \in DOMAIN sessions) => startOk
         \* a cancellation swallowed inside this execution came after its
         \* SessionManager.get
         /\ IF swallowed THEN UNCHANGED sessVars
                         ELSE SessionManager_get(session_id, startOk)
         /\ swallowed' = FALSE
         /\ IF ~startOk
            THEN \* SessionManager.get is called outside the try
                 /\ RunJobExcept("scrape_product.start_browser")
                 /\ emitted' = <<>>
                 /\ UNCHANGED <<scraped_data, scraping_success, scraping_errors,
                                retries, navFails, titleFound, routed,
                                blockVars>>
            ELSE
              /\ UNCHANGED <<jobVars, raised>>
              /\ \E exc \in BOOLEAN, nav1 \in BOOLEAN, blocked \in BOOLEAN,
                    nav2 \in BOOLEAN, found \in BOOLEAN, text \in PageTitles,
                    rating \in Ratings, rev \in ReviewOutcomes :
                   LET data == [asin |-> current_asin,
                                title |-> ExtractedTitle(found, text),
                                rating_average |-> rating,
                                reviews |-> ReviewsExtracted(rev)]
                       new_success == IF exc \/ ~NavOk(nav1, blocked, nav2)
                                      THEN FALSE ELSE has_core(data)
                       new_retries == IF exc THEN retries + 1
                                      ELSE IF ~NavOk(nav1, blocked, nav2) THEN retries
                                      ELSE IF has_core(data) THEN retries
                                      ELSE retries + 1
                   IN
                   \* the environment: an unreachable page fails every
                   \* navigation, a reachable one at most NavFailBound in a row
                   /\ unreachable => (~exc /\ ~NavOk(nav1, blocked, nav2))
                   /\ (~unreachable /\ ~exc /\ ~NavOk(nav1, blocked, nav2)) =>
                          navFails < NavFailBound
                   \* one representative of the draws an outcome does not read
                   /\ exc => (nav1 = ~blocked /\ ~nav2 /\ ~found
                              /\ text = "T" /\ rating = 0 /\ rev = "none")
                   \* a job meets at most BlockBound blocks
                   /\ (~nav1 /\ blocked) => (site_blocks /\ blocks < BlockBound)
                   /\ blocks' = blocks + (IF ~nav1 /\ blocked THEN 1 ELSE 0)
                   /\ relogins' = relogins +
                                     (IF Recovery(nav1, blocked) THEN 1 ELSE 0)
                   /\ (~exc /\ nav1) => (~blocked /\ ~nav2)
                   /\ (~exc /\ ~nav1 /\ ~blocked) => ~nav2
                   /\ (~exc /\ ~NavOk(nav1, blocked, nav2)) =>
                          (~found /\ text = "T" /\ rating = 0 /\ rev = "none")
                   /\ ~found => text = "T"
                   \* the reviews of an item without core data are not read
                   /\ ~has_core(data) => rev = "none"
                   /\ scraping_success' = new_success
                   /\ retries' = new_retries
                   /\ pc' = scrape_router(new_success, new_retries)
                   /\ routed' = scrape_router(new_success, new_retries)
                   /\ IF exc
                      THEN /\ scraped_data' = EmptyData
                           /\ scraping_errors' =
                                MergeErrors(scraping_errors, <<ExcError>>)
                           /\ navFails' = 0
                           /\ titleFound' = FALSE
                           /\ emitted' = <<Ev("scrape_reviews", current_asin, "running"),
                                           Ev("scrape_reviews", current_asin, "error")>>
                      ELSE IF ~NavOk(nav1, blocked, nav2)
                      THEN /\ scraped_data' = EmptyData
                           /\ scraping_errors' =
                                MergeErrors(scraping_errors, <<NavError>>)
                           /\ navFails' = navFails + 1
                           /\ titleFound' = FALSE
                           /\ emitted' = <<Ev("scrape_reviews", current_asin, "running"),
                                           Ev("navigate_product", current_asin, "error")>>
                      ELSE /\ scraped_data' = data
                           /\ scraping_errors' =
                                MergeErrors(scraping_errors,
                                    IF has_core(data) THEN <<>> ELSE <<CoreError>>)
                           /\ navFails' = 0
                           /\ titleFound' = found
                           /\ emitted' = <<Ev("scrape_reviews", current_asin, "running"),
                                           Ev("navigate_product", current_asin, "done"),
                                           Ev("scrape_reviews", current_asin,
                                              IF has_core(data) THEN "done" ELSE "error")>>
    /\ UNCHANGED <<asins, i, auth_ok, current_asin, sentiment_analysis,
                   theme_analysis, final_report, results, cancelRequested,
                   cancelpc, cancelAccepted, summary>>


AnalysisResults == {"parsed", "placeholder"}

\* sentiment_node: sentiment_analysis_node returns a parsed result or one of
\* its placeholders; it catches what the model call raises
sentiment_node ==
    /\ UNCHANGED <<unreachable, multiVars, adapterVars, envVars, fileVars, navVars, headlessVars, logins, blockVars>>
    /\ pc = "sentiment_analysis"
    /\ Runnable
    /\ steps' = steps + 1
    /\ \E res \in AnalysisResults :
         \* without reviews the node returns its placeholder at once
         /\ scraped_data.reviews = 0 => res = "placeholder"
         /\ sentiment_analysis' = res
    /\ analysisCalls' = analysisCalls + 1
    /\ emitted' = <<Ev("llm_sentiment", current_asin, "running"),
                    Ev("llm_sentiment", current_asin, "done")>>
    /\ pc' = "theme_analysis"
    /\ UNCHANGED <<asins, i, auth_ok, current_asin, scraped_data,
                   scraping_success, scraping_errors, theme_analysis,
                   final_report, results, retries, sessVars, jobVars,
                   cancelVars, summary, attempts, navFails,
                   titleFound, routed, raised>>

theme_node ==
    /\ UNCHANGED <<unreachable, multiVars, adapterVars, envVars, fileVars, navVars, headlessVars, logins, blockVars>>
    /\ pc = "theme_analysis"
    /\ Runnable
    /\ steps' = steps + 1
    /\ \E res \in AnalysisResults :
         /\ scraped_data.reviews = 0 => res = "placeholder"
         /\ theme_analysis' = res
    /\ analysisCalls' = analysisCalls + 1
    /\ emitted' = <<Ev("llm_themes", current_asin, "running"),
                    Ev("llm_themes", current_asin, "done")>>
    /\ pc' = "build_report"
    /\ UNCHANGED <<asins, i, auth_ok, current_asin, scraped_data,
                   scraping_success, scraping_errors, sentiment_analysis,
                   final_report, results, retries, sessVars, jobVars,
                   cancelVars, summary, attempts, navFails,
                   titleFound, routed, raised>>

build_report ==
    /\ UNCHANGED <<unreachable, multiVars, adapterVars, envVars, fileVars, navVars, headlessVars, logins, blockVars>>
    /\ pc = "build_report"
    /\ Runnable
    /\ steps' = steps + 1
    /\ final_report' = BuildReport(scraped_data)
    /\ emitted' = <<Ev("build_report", current_asin, "done")>>
    /\ pc' = "persist_result"
    /\ UNCHANGED <<asins, i, auth_ok, current_asin, scraped_data,
                   scraping_success, scraping_errors, sentiment_analysis,
                   theme_analysis, results, retries, sessVars, jobVars,
                   cancelVars, summary, histVars, raised>>

WriteOutcomes == {"ok", "write_fails", "makedirs_raises"}

\* persist_result (current_asin is set: the identifiers are non-empty).
\* os.makedirs is called outside the try that guards the write.
persist_result ==
    /\ UNCHANGED <<unreachable, multiVars, adapterVars, envVars, fileVars, navVars, headlessVars, logins, blockVars>>
    /\ pc = "persist_result"
    /\ Runnable
    /\ steps' = steps + 1
    /\ \E w \in WriteOutcomes :
         /\ ~final_report.built => w = "ok"
         /\ IF final_report.built /\ w = "makedirs_raises"
            THEN /\ RunJobExcept("persist_result.makedirs")
                 /\ emitted' = <<>>
                 /\ UNCHANGED results
            ELSE LET path == IF final_report.built /\ w = "ok" THEN "path" ELSE Null
                 IN /\ results' = AppendResult(results,
                                     ResultEntry(current_asin, final_report, path,
                                                 EntrySuccess(scraping_success,
                                                     scraped_data, sentiment_analysis),
                                                 scraping_errors))
                    /\ emitted' = IF path # Null
                                  THEN <<Ev("report_saved", current_asin, "done")>>
                                  ELSE <<>>
                    /\ pc' = "advance_index"
                    /\ UNCHANGED <<jobVars, raised>>
    \* the observation of the item ends with its entry
    /\ attempts' = 0
    /\ navFails' = 0
    /\ analysisCalls' = 0
    /\ titleFound' = FALSE
    /\ routed' = Null
    /\ UNCHANGED <<asins, i, auth_ok, current_asin, scraped_data,
                   scraping_success, scraping_errors, sentiment_analysis,
                   theme_analysis, final_report, retries, sessVars, cancelVars,
                   summary>>

NextIndexSkip(idx) == idx + 2
\* state.get("i", 0) + 1 of advance_index
NextIndex(idx) == idx + 1

advance_index ==
    /\ UNCHANGED <<unreachable, multiVars, adapterVars, envVars, fileVars, navVars, headlessVars, logins, blockVars>>
    /\ pc = "advance_index"
    /\ Runnable
    /\ steps' = steps + 1
    /\ i' = NextIndex(i)
    /\ emitted' = <<>>
    /\ pc' = "pick_next_asin"
    /\ UNCHANGED <<asins, auth_ok, current_asin, scraped_data, scraping_success,
                   scraping_errors, sentiment_analysis, theme_analysis,
                   final_report, results, retries, sessVars, jobVars,
                   cancelVars, summary, histVars, raised>>

\* finalize, and run_job's bookkeeping once wf.run has returned.
\* os.makedirs is called outside the try that guards the summary write.
finalize ==
    /\ UNCHANGED <<unreachable, multiVars, adapterVars, envVars, fileVars, navVars, headlessVars, logins, blockVars>>
    /\ pc = "finalize"
    /\ Runnable
    /\ steps' = steps + 1
    /\ \E closeOk \in BOOLEAN :
         /\ SessionManager_close(session_id, closeOk)
         /\ (session_id \notin DOMAIN sessions) => closeOk
    /\ \E w \in WriteOutcomes :
         IF w = "makedirs_raises"
         THEN /\ RunJobExcept("finalize.makedirs")
              /\ emitted' = <<>>
              /\ UNCHANGED summary
         ELSE /\ summary' = [built |-> TRUE,
                             written |-> (w = "ok"),
                             count |-> BatchSummary(results).count,
                             results |-> BatchSummary(results).results]
              /\ emitted' = IF w = "ok" THEN <<Ev("done", Null, "done")>> ELSE <<>>
              /\ jobResults' = results
              /\ status' = "done"
              /\ queue' = Append(queue, "_stream_end")
              /\ pc' = "done"
              /\ UNCHANGED raised
    /\ UNCHANGED <<stateVars, cancelVars, histVars>>

\* ----------------------------------------------------------- cancellation
\* the statuses in which JobManager.cancel returns at once
FinalStatuses == {"done", "error", "cancelled"}

\* JobManager.cancel up to its first suspension: the early return, task.cancel()
\* and close_all.  With an empty registry close_all does not suspend and the
\* handler runs to its end; otherwise it suspends in close_browser.
cancel_begin ==
    /\ UNCHANGED <<unreachable, multiVars, adapterVars, envVars, fileVars, navVars, headlessVars, logins, blockVars>>
    /\ cancelpc = "idle"
    /\ status \notin FinalStatuses
    /\ cancelAccepted' = TRUE
    /\ cancelRequested' = (pc \in Nodes \cup {"pending"})
    /\ \E failed \in SUBSET Registered : SessionManager_close_all(failed)
    /\ IF DOMAIN sessions = {}
       THEN /\ status' = "cancelled"
            /\ queue' = queue \o <<"cancelled", "_stream_end">>
            /\ cancelpc' = "done"
       ELSE /\ cancelpc' = "closing"
            /\ UNCHANGED <<status, queue>>
    /\ UNCHANGED <<stateVars, pc, steps, jobResults, swallowed, summary, emitted, histVars, raised>>

\* JobManager.cancel after close_all
cancel_end ==
    /\ UNCHANGED <<unreachable, multiVars, adapterVars, envVars, fileVars, navVars, headlessVars, logins, blockVars>>
    /\ cancelpc = "closing"
    /\ status' = "cancelled"
    /\ queue' = queue \o <<"cancelled", "_stream_end">>
    /\ cancelpc' = "done"
    /\ UNCHANGED <<stateVars, pc, steps, sessVars, jobResults, cancelRequested,
                   swallowed, cancelAccepted, summary, emitted,
                   histVars, raised>>

\* nodes in which the task is suspended under a bare `except:` of
\* scraper_real.py (perform_login, extract_product_info, navigate_to_reviews,
\* extract_reviews), which also catches CancelledError
SwallowNodes == {"login", "scrape_product"}

\* the CancelledError of task.cancel() reaches the job task
job_cancelled ==
    /\ UNCHANGED <<unreachable, multiVars, adapterVars, envVars, fileVars, navVars, headlessVars, logins, blockVars>>
    /\ cancelRequested
    /\ pc \in Nodes \cup {"pending"}
    /\ cancelRequested' = FALSE
    /\ \/ \* the task had not started: its coroutine never runs
          /\ pc = "pending"
          /\ pc' = "cancelled"
          /\ UNCHANGED <<sessVars, queue, swallowed>>
       \/ \* it propagates out of wf.run: only run_job's finally runs
          /\ pc \in Nodes \ {"open_session_and_login"}
          /\ pc' = "cancelled"
          /\ queue' = Append(queue, "_stream_end")
          /\ UNCHANGED <<sessVars, swallowed>>
       \/ \* as above, while start_browser was running: the scraper is not
          \* registered yet and its browser may already be launched
          /\ pc = "open_session_and_login"
          /\ pc' = "cancelled"
          /\ queue' = Append(queue, "_stream_end")
          /\ \E launched \in BOOLEAN :
               /\ browserStarts' = browserStarts + 1
               /\ openBrowsers' = IF launched
                                  THEN openBrowsers \cup {browserStarts + 1}
                                  ELSE openBrowsers
          /\ UNCHANGED <<sessions, swallowed>>
       \/ \* a bare except swallows it: the node goes on
          /\ pc \in SwallowNodes
          /\ swallowed' = TRUE
          /\ UNCHANGED <<pc, sessVars, queue>>
    /\ UNCHANGED <<stateVars, steps, status, jobResults, cancelpc,
                   cancelAccepted, summary, emitted, histVars,
                   raised>>

\* ----------------------------------------------------------- stream_events
\* position of the first end marker of a queue content (Len + 1 if none)
FirstEnd(q) ==
    IF \E k \in 1..Len(q) : q[k] = "_stream_end"
    THEN CHOOSE k \in 1..Len(q) :
             /\ q[k] = "_stream_end"
             /\ \A j \in 1..(k - 1) : q[j] # "_stream_end"
    ELSE Len(q) + 1

\* event_generator of stream_events: what a subscriber is handed from a queue
\* content: every event up to the first end marker, at which it stops
event_generator(q) == SubSeq(q, 1, IF FirstEnd(q) > Len(q) THEN Len(q) ELSE FirstEnd(q))

Range(q) == {q[k] : k \in 1..Len(q)}

\* ------------------------------------------------------------------- Next
\* a job that is left to run
RunNext ==
    \/ run_job_start
    \/ open_session_and_login
    \/ open_session_login
    \/ pick_next_asin
    \/ scrape_product
    \/ sentiment_node
    \/ theme_node
    \/ build_report
    \/ persist_result
    \/ advance_index
    \/ finalize
    \/ graph_recursion_error

\* a job that cancel_job may cancel
Next ==
    \/ run_job_start
    \/ open_session_and_login
    \/ open_session_login
    \/ pick_next_asin
    \/ scrape_product
    \/ sentiment_node
    \/ theme_node
    \/ build_report
    \/ persist_result
    \/ advance_index
    \/ finalize
    \/ graph_recursion_error
    \/ cancel_begin
    \/ cancel_end
    \/ job_cancelled

Spec == Init /\ [][Next]_vars

SpecRun == Init /\ [][RunNext]_vars

\* one job on a site that blocks: _detect_auth_block can report a block
InitBlock ==
    /\ asins \in {<<"A">>, <<"A", "B">>}
    /\ InitWorkflow
    /\ InitRegistry
    /\ AdapterIdle
    /\ NavIdle
    /\ FilesIdle
    /\ HeadlessIdle
    /\ site_blocks = TRUE
    /\ jpc = <<>>
    /\ jsid = <<>>
    /\ jscraper = <<>>
    /\ jused = <<>>
    /\ sem = 0
    /\ max_parallel = 0
    /\ parpc = "idle"

SpecBlock == InitBlock /\ [][RunNext]_vars

\* ------------------------------------------- several jobs, one registry
\* Jobs of JobManager running concurrently on the process-wide
\* SessionManager.  A job is followed through its calls on the registry:
\* open_session_and_login and scrape_product (SessionManager.get), finalize
\* (SessionManager.close) and JobManager.cancel (SessionManager.close_all).
MaxJobs == 2                \* jobs running concurrently
MaxStarts == 3              \* browsers started in one behaviour

JobIds == 1..MaxJobs

InitJobs ==
    /\ asins = <<"A">>
    /\ InitWorkflow
    /\ InitRegistry
    /\ AdapterIdle
    /\ NavIdle
    /\ FilesIdle
    /\ HEADLESS = FALSE
    \* create_job puts its headless parameter into the options of the job
    /\ joptions \in [JobIds -> BOOLEAN]
    /\ bheadless = <<>>
    /\ site_blocks = FALSE
    /\ jpc = [j \in JobIds |-> "pending"]
    \* run() gives every job its own session id
    /\ jsid = [j \in JobIds |-> j]
    /\ jscraper = [j \in JobIds |-> 0]
    /\ jused = [j \in JobIds |-> 0]
    /\ sem = 0
    /\ max_parallel = 0
    /\ parpc = "idle"

\* SessionManager.get may start a browser
MayStart(sid) == sid \in DOMAIN sessions \/ browserStarts < MaxStarts

\* SessionManager.get constructs a scraper with
\* headless=(os.getenv("HEADLESS", "false").lower() == "true")
ConstructScraper(sid) ==
    bheadless' = IF sid \in DOMAIN sessions
                 THEN bheadless
                 ELSE Put(bheadless, browserStarts + 1, HEADLESS)

\* run_job of job j, up to the call of wf.run: the headless option of the
\* job is written to the environment of the process
job_run(j) ==
    /\ jpc[j] = "pending"
    /\ HEADLESS' = joptions[j]
    /\ jpc' = [jpc EXCEPT ![j] = "started"]
    /\ UNCHANGED <<asins, oneJobVars, sessVars, adapterVars, envVars, fileVars, navVars, joptions, bheadless, jsid, jscraper, jused, max_parallel, sem, parpc>>

\* open_session_and_login of job j: SessionManager.get(session_id)
job_open_session(j) ==
    /\ jpc[j] = "started"
    /\ MayStart(jsid[j])
    /\ \E startOk \in BOOLEAN :
         /\ SessionManager_get(jsid[j], startOk)
         /\ IF startOk
            THEN /\ jpc' = [jpc EXCEPT ![j] = "running"]
                 /\ jscraper' = [jscraper EXCEPT ![j] = sessions'[jsid[j]]]
            ELSE /\ jpc' = [jpc EXCEPT ![j] = "error"]
                 /\ UNCHANGED jscraper
    /\ ConstructScraper(jsid[j])
    /\ UNCHANGED <<asins, oneJobVars, adapterVars, envVars, fileVars, navVars, HEADLESS, joptions, jsid, jused, max_parallel, sem, parpc>>

\* scrape_product of job j: SessionManager.get(session_id) once more
job_scrape_product(j) ==
    /\ jpc[j] = "running"
    /\ MayStart(jsid[j])
    /\ \E startOk \in BOOLEAN :
         /\ SessionManager_get(jsid[j], startOk)
         /\ IF startOk
            THEN /\ jused' = [jused EXCEPT ![j] = sessions'[jsid[j]]]
                 /\ UNCHANGED jpc
            ELSE /\ jpc' = [jpc EXCEPT ![j] = "error"]
                 /\ UNCHANGED jused
    /\ ConstructScraper(jsid[j])
    /\ UNCHANGED <<asins, oneJobVars, adapterVars, envVars, fileVars, navVars, HEADLESS, joptions, jsid, jscraper, max_parallel, sem, parpc>>

\* finalize of job j: SessionManager.close(session_id)
job_finalize(j) ==
    /\ jpc[j] = "running"
    /\ \E closeOk \in BOOLEAN :
         /\ SessionManager_close(jsid[j], closeOk)
         /\ (jsid[j] \notin DOMAIN sessions) => closeOk
    /\ jpc' = [jpc EXCEPT ![j] = "done"]
    /\ UNCHANGED <<asins, oneJobVars, adapterVars, envVars, fileVars, navVars, headlessVars, jsid, jscraper, jused, max_parallel, sem, parpc>>

\* JobManager.cancel of job j: its task is cancelled and
\* SessionManager.close_all() is called
job_cancel(j) ==
    /\ jpc[j] \notin FinalStatuses
    /\ \E failed \in SUBSET Registered : SessionManager_close_all(failed)
    /\ jpc' = [jpc EXCEPT ![j] = "cancelled"]
    /\ UNCHANGED <<asins, oneJobVars, adapterVars, envVars, fileVars, navVars, headlessVars, jsid, jscraper, jused, max_parallel, sem, parpc>>

NextJobs ==
    \/ \E j \in JobIds : job_run(j)
    \/ \E j \in JobIds : job_open_session(j)
    \/ \E j \in JobIds : job_scrape_product(j)
    \/ \E j \in JobIds : job_finalize(j)
    \/ \E j \in JobIds : job_cancel(j)

SpecJobs == InitJobs /\ [][NextJobs]_vars

\* ------------------------------------------- AmazonParallelBatchWorkflow
\* run(asins) of amazon_parallel_batch_workflow.py as its command line runs
\* it: one task per identifier, admitted through asyncio.Semaphore
\* (max_parallel); an admitted task builds an AmazonBatchWorkflow and runs it
\* on its single identifier under a session id of its own.
MaxTasks == 3               \* identifiers of a parallel run
MaxParallel == 2            \* largest max_parallel

\* the session ids drawn so far; uuid4 values are taken to be fresh
DrawnIds == {jsid[t] : t \in DOMAIN jsid} \ {0}
FreshId == Cardinality(DrawnIds) + 1

Admitted == {t \in DOMAIN jpc : jpc[t] = "admitted"}

InitParallel ==
    /\ asins \in SeqsUpTo(Asins, MaxTasks)
    /\ InitWorkflow
    /\ InitRegistry
    /\ AdapterIdle
    /\ NavIdle
    /\ FilesIdle
    /\ HeadlessIdle
    /\ site_blocks = FALSE
    /\ jpc = [t \in 1..Len(asins) |-> "created"]
    /\ jsid = [t \in 1..Len(asins) |-> 0]
    /\ jscraper = [t \in 1..Len(asins) |-> 0]
    /\ jused = [t \in 1..Len(asins) |-> 0]
    /\ max_parallel \in 1..MaxParallel
    /\ sem = 0
    /\ parpc = "idle"

\* run: the semaphore and the tasks are created and gathered
par_run ==
    /\ parpc = "idle"
    /\ sem' = max_parallel
    /\ jpc' = [t \in DOMAIN jpc |-> "waiting"]
    /\ parpc' = "gathering"
    /\ UNCHANGED <<asins, oneJobVars, adapterVars, envVars, fileVars, navVars, headlessVars, sessVars, jsid, jscraper, jused, max_parallel>>

\* _run_single: `async with sem` lets the task in; wf.run draws its session id
par_admit(t) ==
    /\ parpc = "gathering"
    /\ jpc[t] = "waiting"
    /\ sem > 0
    /\ sem' = sem - 1
    /\ jpc' = [jpc EXCEPT ![t] = "admitted"]
    /\ jsid' = [jsid EXCEPT ![t] = FreshId]
    /\ UNCHANGED <<asins, oneJobVars, adapterVars, envVars, fileVars, navVars, headlessVars, sessVars, jscraper, jused, max_parallel, parpc>>

\* what the constructor and wf.run of an admitted task do
TaskOutcomes == {"returned", "raised"}

\* _run_single: the workflow returns its state or raises (constructor,
\* start_browser, GraphRecursionError, ...); the slot is released either way
par_finish(t) ==
    /\ parpc = "gathering"
    /\ jpc[t] = "admitted"
    /\ sem' = sem + 1
    /\ \E out \in TaskOutcomes : jpc' = [jpc EXCEPT ![t] = out]
    /\ UNCHANGED <<asins, oneJobVars, adapterVars, envVars, fileVars, navVars, headlessVars, sessVars, jsid, jscraper, jused, max_parallel, parpc>>

\* gather(return_exceptions=False) hands the first exception to run(), which
\* lets it out to asyncio.run: the tasks still pending are cancelled
par_gather_raises ==
    /\ parpc = "gathering"
    /\ \E t \in DOMAIN jpc : jpc[t] = "raised"
    /\ parpc' = "raised"
    /\ jpc' = [t \in DOMAIN jpc |->
                 IF jpc[t] \in {"waiting", "admitted"} THEN "cancelled" ELSE jpc[t]]
    /\ sem' = sem + Cardinality(Admitted)
    /\ UNCHANGED <<asins, oneJobVars, adapterVars, envVars, fileVars, navVars, headlessVars, sessVars, jsid, jscraper, jused, max_parallel>>

\* every task returned: run() writes the summary
par_summary ==
    /\ parpc = "gathering"
    /\ \A t \in DOMAIN jpc : jpc[t] = "returned"
    /\ parpc' = "done"
    /\ UNCHANGED <<asins, oneJobVars, adapterVars, envVars, fileVars, navVars, headlessVars, sessVars, jpc, jsid, jscraper, jused, max_parallel, sem>>

NextParallel ==
    \/ par_run
    \/ \E t \in DOMAIN jpc : par_admit(t)
    \/ \E t \in DOMAIN jpc : par_finish(t)
    \/ par_gather_raises
    \/ par_summary

\* the event loop runs every task that can run
SpecParallel == InitParallel /\ [][NextParallel]_vars /\ WF_vars(NextParallel)

\* ------------------------------------------------------- analysis nodes
\* One call of an analysis node on reviews that are there: the LLM's answer
\* is drawn in Init and the node turns it into its analysis.
InitAdapter ==
    /\ asins = <<"A">>
    /\ InitWorkflow
    /\ InitRegistry
    /\ jpc = <<>>
    /\ jsid = <<>>
    /\ jscraper = <<>>
    /\ jused = <<>>
    /\ sem = 0
    /\ max_parallel = 0
    /\ parpc = "idle"
    /\ llm_output \in OutputTexts
    /\ analysis = NoAnalysis
    /\ NavIdle
    /\ FilesIdle
    /\ HeadlessIdle
    /\ site_blocks = FALSE

sentiment_analysis_node ==
    /\ analysis = NoAnalysis
    /\ \E llm \in LlmOutcomes :
         analysis' = IF llm = "text" THEN SentimentOf(llm_output)
                     ELSE ErrorAnalysis("sentiment")
    /\ UNCHANGED <<asins, oneJobVars, sessVars, multiVars, envVars, fileVars, navVars,
                   headlessVars, llm_output>>

theme_analysis_node ==
    /\ analysis = NoAnalysis
    /\ \E llm \in LlmOutcomes :
         analysis' = IF llm = "text" THEN ThemesOf(llm_output)
                     ELSE ErrorAnalysis("themes")
    /\ UNCHANGED <<asins, oneJobVars, sessVars, multiVars, envVars, fileVars, navVars,
                   headlessVars, llm_output>>

NextAdapter ==
    \/ sentiment_analysis_node
    \/ theme_analysis_node

SpecAdapter == InitAdapter /\ [][NextAdapter]_vars

\* ------------------------------------------- _goto_product_with_retries
\* One call of _goto_product_with_retries(scraper, asin, max_attempts).
InitNav ==
    /\ asins = <<"A">>
    /\ InitWorkflow
    /\ InitRegistry
    /\ AdapterIdle
    /\ site_blocks = FALSE
    /\ HeadlessIdle
    /\ FilesIdle
    /\ jpc = <<>>
    /\ jsid = <<>>
    /\ jscraper = <<>>
    /\ jused = <<>>
    /\ sem = 0
    /\ max_parallel = 0
    /\ parpc = "idle"
    /\ max_attempts \in 1..MaxAttempts
    /\ attempt = 1
    /\ url = 1
    /\ backoff = InitialBackoff
    /\ nav_trace = <<>>
    /\ nav_result = "running"

\* the body of `for url in urls`: goto and wait_for_selector, both guarded
nav_try ==
    /\ nav_result = "running"
    /\ attempt <= max_attempts
    /\ url <= NumUrls
    /\ \E o \in TryOutcomes :
         /\ nav_trace' = Append(nav_trace, GotoEv(attempt, url, o))
         /\ nav_result' = AfterTry(o)
    /\ url' = url + 1
    /\ UNCHANGED <<max_attempts, attempt, backoff>>
    /\ UNCHANGED <<asins, oneJobVars, sessVars, multiVars, envVars, fileVars, adapterVars,
                   headlessVars>>

\* the end of the body of `for attempt`: sleep(backoff); backoff *= 1.8
nav_sleep ==
    /\ nav_result = "running"
    /\ attempt <= max_attempts
    /\ url > NumUrls
    /\ nav_trace' = Append(nav_trace, SleepEv(backoff))
    /\ backoff' = NextBackoff(backoff)
    /\ attempt' = attempt + 1
    /\ url' = 1
    /\ UNCHANGED <<max_attempts, nav_result>>
    /\ UNCHANGED <<asins, oneJobVars, sessVars, multiVars, envVars, fileVars, adapterVars,
                   headlessVars>>

\* return False
nav_return_false ==
    /\ nav_result = "running"
    /\ attempt > max_attempts
    /\ nav_result' = "false"
    /\ UNCHANGED <<max_attempts, attempt, url, backoff, nav_trace>>
    /\ UNCHANGED <<asins, oneJobVars, sessVars, multiVars, envVars, fileVars, adapterVars,
                   headlessVars>>

NextNav ==
    \/ nav_try
    \/ nav_sleep
    \/ nav_return_false

SpecNav == InitNav /\ [][NextNav]_vars

\* ------------------------------------------------- the output directory

\* Jobs of one process write their reports and summaries to the directory
\* "output"; get_report reads from it.

\* path = f"output/batch_report_{asin}_{timestamp}.json"
ReportPath(asin, ts) == [kind |-> "batch_report", asin |-> asin, ts |-> ts]

\* summary_path = f"output/batch_summary_{batch_id}.json"
SummaryPath(ts) == [kind |-> "batch_summary", asin |-> "", ts |-> ts]

PathOf(f) == [kind |-> f.kind, asin |-> f.asin, ts |-> f.ts]

\* open(path, "w") and json.dump by job j: the file at path is created or
\* replaced
WriteFile(fs, path, j) ==
    {f \in fs : PathOf(f) # path} \cup
        {[kind |-> path.kind, asin |-> path.asin, ts |-> path.ts, job |-> j]}

\* glob.glob(f"output/batch_report_{asin}_*.json")
Glob(asin) == {f \in files : f.kind = "batch_report" /\ f.asin = asin}

\* sorted(paths)[-1]: the timestamp is the only part that differs
LastPath(fs) == CHOOSE f \in fs : \A g \in fs : g.ts <= f.ts

FileAsins == {<<"A">>, <<"A", "B">>}

InitFiles ==
    /\ asins = <<"A">>
    /\ InitWorkflow
    /\ InitRegistry
    /\ AdapterIdle
    /\ NavIdle
    /\ HeadlessIdle
    /\ site_blocks = FALSE
    /\ jpc = <<>>
    /\ jsid = <<>>
    /\ jscraper = <<>>
    /\ jused = <<>>
    /\ sem = 0
    /\ max_parallel = 0
    /\ parpc = "idle"
    /\ clock = 0
    /\ files = {}
    /\ fasins \in [JobIds -> FileAsins]
    /\ fi = [j \in JobIds |-> 1]
    /\ fstatus = [j \in JobIds |-> "running"]
    /\ response = NoAnswer

FilesFrame ==
    UNCHANGED <<asins, oneJobVars, sessVars, multiVars, adapterVars, envVars,
                navVars, headlessVars>>

\* a second passes
tick ==
    /\ clock < MaxClock
    /\ clock' = clock + 1
    /\ UNCHANGED <<files, fasins, fi, fstatus, response>>
    /\ FilesFrame

\* persist_result of job j for its current identifier: the report, when there
\* is one, is written to the path made of the identifier and the second;
\* advance_index then moves the cursor
file_persist_result(j) ==
    /\ fstatus[j] = "running"
    /\ fi[j] <= Len(fasins[j])
    /\ \E report \in BOOLEAN :
         files' = IF report
                  THEN WriteFile(files, ReportPath(fasins[j][fi[j]], clock), j)
                  ELSE files
    /\ fi' = [fi EXCEPT ![j] = fi[j] + 1]
    /\ UNCHANGED <<clock, fasins, fstatus, response>>
    /\ FilesFrame

\* finalize of job j: the summary is written to the path made of the second
file_finalize(j) ==
    /\ fstatus[j] = "running"
    /\ fi[j] > Len(fasins[j])
    /\ files' = WriteFile(files, SummaryPath(clock), j)
    /\ fstatus' = [fstatus EXCEPT ![j] = "done"]
    /\ UNCHANGED <<clock, fasins, fi, response>>
    /\ FilesFrame

\* run_job of job j when an exception leaves the workflow
file_job_error(j) ==
    /\ fstatus[j] = "running"
    /\ fstatus' = [fstatus EXCEPT ![j] = "error"]
    /\ UNCHANGED <<clock, files, fasins, fi>>
    /\ UNCHANGED response
    /\ FilesFrame

\* GET /jobs/{job_id}/report?asin=...: job id 0 is the id of no job
get_report_txt(j, asin) ==
    /\ response' =
         IF j \notin DOMAIN fstatus THEN Answer(j, asin, 404, 0)
         ELSE IF fstatus[j] \notin {"done", "error"}
              THEN Answer(j, asin, 409, 0)
         ELSE IF Glob(asin) = {} THEN Answer(j, asin, 404, 0)
         ELSE Answer(j, asin, 200, LastPath(Glob(asin)).job)
    /\ UNCHANGED <<clock, files, fasins, fi, fstatus>>
    /\ FilesFrame

NextFiles ==
    \/ tick
    \/ \E j \in JobIds : file_persist_result(j)
    \/ \E j \in JobIds : file_finalize(j)
    \/ \E j \in JobIds : file_job_error(j)
    \/ \E j \in 0..MaxJobs : \E asin \in Asins : get_report_txt(j, asin)

SpecFiles == InitFiles /\ [][NextFiles]_vars

\* ----------------------------------------------------------------- claims

\* C1: when a job that was not cancelled reaches finalize, results holds
\* exactly one entry per identifier, and the summary finalize builds from it
\* has that many results and that count.
C1_FinalizeHoldsOneEntryPerIdentifier ==
    /\ (pc = "finalize" /\ ~cancelAccepted) => Len(results) = Len(asins)
    /\ (summary.built /\ ~cancelAccepted) =>
           /\ summary.count = Len(asins)
           /\ Len(summary.results) = Len(asins)

\* a finished two-identifier job whose first item succeeded and whose second
\* item failed
C1_Witness ==
    /\ pc = "done"
    /\ summary.built
    /\ summary.count = 2
    /\ summary.results[1].success
    /\ ~summary.results[2].success

\* C2: a job that is not cancelled does not run out of its step budget
\* (recursion_limit) before the identifiers are exhausted.
C2_NeverOutOfSteps ==
    ~cancelAccepted => raised # "GraphRecursionError"

\* C3: an identifier whose navigation failed in the first attempt and in the
\* retry is given up: the machine goes on to persist_result instead of
\* staying on scrape_product.
C3_NavigationFailureIsPersisted ==
    (pc \in Nodes /\ navFails >= 2) => pc = "persist_result"

\* C4: scrape_product is executed at most twice per identifier (the first
\* attempt and one retry) and retries never exceeds 1.
C4_AtMostTwoScrapesPerIdentifier ==
    attempts <= 2 /\ retries <= 1

\* C5: an identifier whose scrape_product failed on the first attempt and
\* again on the retry is routed to persist_result, with success false and
\* without any call of the analysis adapter.
C5_TwiceFailedIsPersistedUnanalysed ==
    (routed # Null /\ attempts >= 2 /\ ~scraping_success) =>
        (routed = "persist_result" /\ analysisCalls = 0)

\* C6: after an execution of scrape_product the machine goes to the analysis
\* (sentiment_analysis) if and only if the extracted record has a title other
\* than the placeholder and a rating above 0.
C6_AnalyzeIffCoreData ==
    routed # Null =>
        ((routed = "sentiment_analysis") <=>
            (scraped_data.title # Placeholder /\ scraped_data.rating_average > 0))

\* a record with a valid title and no rating was routed past the analysis
C6_Witness ==
    /\ routed = "persist_result"
    /\ scraped_data.title = "T"
    /\ scraped_data.rating_average = 0

\* C7: an item is marked successful only if a title was obtained from the
\* page.
C7_SuccessOnlyWithPageTitle ==
    (routed # Null /\ scraping_success) => titleFound

\* C8: the k-th entry of results is the entry of the k-th identifier.
C8_ResultsInInputOrder ==
    /\ Len(results) <= Len(asins)
    /\ \A k \in 1..Len(results) : results[k].asin = asins[k]

\* two different identifiers, the first failed and the second succeeded, both
\* persisted
C8_Witness ==
    /\ Len(results) = 2
    /\ asins[1] # asins[2]
    /\ ~results[1].success
    /\ results[2].success

\* C9: once cancel_job has been carried out, the job's session is closed and
\* the registry holds no session under the job's session id.
C9_CancelLeavesNoSession ==
    cancelpc = "done" =>
        (session_id \notin DOMAIN sessions /\ openBrowsers = {})

\* C10: once cancel_job has been carried out, the subscriber of the job's
\* stream is handed a cancelled event before the end marker.
C10_CancelledBeforeEndMarker ==
    cancelpc = "done" => "cancelled" \in Range(event_generator(queue))

\* C11: once a job has been cancelled while it was processing an item, the
\* job's results are exactly the entries persisted before the cancellation.
C11_CancelledJobKeepsResolvedEntries ==
    (status = "cancelled" /\ pc = "cancelled") => jobResults = results

\* C12: a job is done exactly when its graph reached the end, error exactly
\* when an exception escaped the workflow, cancelled once cancel_job was
\* carried out; and a final status never changes again.
C12_FinalStatus ==
    /\ [](pc = "done" <=> status = "done")
    /\ [](raised # Null <=> status = "error")
    /\ [](cancelpc = "done" => status = "cancelled")
    /\ [][(status \in FinalStatuses) => (status' = status)]_vars

\* C13: with two jobs running, each with its own session id, the cancel or
\* the finalize of one job removes no other job's session from the registry.
C13_OnlyOwnSessionRemoved ==
    [][\A j \in JobIds :
          (jpc[j] # jpc'[j] /\ jpc'[j] \in {"done", "cancelled"}) =>
              \A k \in JobIds \ {j} :
                  (jsid[k] \in DOMAIN sessions) => (jsid[k] \in DOMAIN sessions')]_vars

\* C14: every scrape_product of a job gets the scraper its
\* open_session_and_login got: the job's session is constructed once.
C14_OneScraperPerJob ==
    \A j \in DOMAIN jpc : jused[j] \in {0, jscraper[j]}

C16_AcquireTwiceSameScraper ==
    /\ browserStarts <= 1
    /\ logins <= 1
    /\ (attempts >= 1 /\ pc \in Nodes) =>
           /\ session_id \in DOMAIN sessions
           /\ sessions[session_id] = 1
           /\ openBrowsers = {1}

\* scrape_product has acquired the session that open_session_and_login
\* acquired, for the second time
C16_Witness ==
    /\ attempts = 2
    /\ logins = 1
    /\ browserStarts = 1
    /\ session_id \in DOMAIN sessions

\* C17: SessionManager.close(session_id), as finalize calls it, leaves the
\* registry without that id and with every other entry as it was, whether or
\* not closing the browser raises; it closes no other browser; and it
\* changes nothing when the id is absent (so a second close changes nothing).
C17_ReleaseEvictsAndIsIdempotent ==
    [][\A j \in JobIds :
          (jpc[j] = "running" /\ jpc'[j] = "done") =>
              /\ sessions' = Remove(sessions, jsid[j])
              /\ browserStarts' = browserStarts
              /\ IF jsid[j] \in DOMAIN sessions
                 THEN openBrowsers \ {sessions[jsid[j]]} \subseteq openBrowsers'
                      /\ openBrowsers' \subseteq openBrowsers
                 ELSE openBrowsers' = openBrowsers]_vars

\* job 1 has finalized while job 2 runs: job 1's session is evicted although
\* closing its browser raised (the browser is still open), and job 2's
\* session is still registered
C17_Witness ==
    /\ jpc = <<"done", "running">>
    /\ jsid[1] \notin DOMAIN sessions
    /\ jscraper[1] \in openBrowsers
    /\ jsid[2] \in DOMAIN sessions

\* C18: open_session_and_login logs in exactly once and the machine then
\* goes to pick_next_asin with the session registered, whatever the login
\* did; a job whose login failed still uses the session in scrape_product
\* and ends with an entry for every identifier.
C18_LoginOnceThenPickNext ==
    /\ logins <= 1
    /\ (logins = 1 /\ steps = 1) =>
           (pc = "pick_next_asin" /\ session_id \in DOMAIN sessions)
    /\ (pc \in Nodes \ {"open_session_and_login", "login"}) => logins = 1
    /\ (~auth_ok /\ pc \in Nodes \ {"open_session_and_login", "login", "finalize"}) =>
           session_id \in DOMAIN sessions
    /\ (~auth_ok /\ pc = "done") => Len(results) = Len(asins)

\* a job whose login failed has processed two identifiers, the first of
\* them with success
C18_Witness ==
    /\ pc = "done"
    /\ logins = 1
    /\ ~auth_ok
    /\ Len(results) = 2
    /\ results[1].success

\* C19: no exception of a collaborator call made by scrape_product (the
\* session lookup included) or by the analysis nodes leaves the node and
\* ends the job.
C19_NoExceptionEscapesScrapeOrAnalyze ==
    raised \notin {"scrape_product.start_browser"}

\* C20: an execution of persist_result appends the entry of the item, with
\* the item's success flag, and the machine goes on to advance_index,
\* whatever fails while the report is saved.
C20_PersistAlwaysAppends ==
    [][(pc = "persist_result" /\ pc' # "persist_result") =>
          /\ pc' = "advance_index"
          /\ Len(results') = Len(results) + 1
          /\ results'[Len(results')].success = scraping_success
          /\ results'[Len(results')].asin = current_asin]_vars

\* C21: an execution of finalize ends with the job done, the session closed
\* and the entries in results handed to the job unchanged, whatever fails
\* while the summary is written.
C21_FinalizeAlwaysEndsDone ==
    [][(pc = "finalize" /\ pc' # "finalize") =>
          /\ pc' = "done"
          /\ status' = "done"
          /\ session_id \notin DOMAIN sessions'
          /\ results' = results
          /\ jobResults' = results]_vars

\* C22: when the LLM's answer holds no text that json.loads accepts as an
\* object, the node, sentiment or themes, returns a fallback analysis that
\* carries the answer as raw_response and has parsing_failed = true.
C22_UnparseableAnswerGivesFlaggedFallback ==
    LET n == Len(llm_output)
        NoObject == \A a \in 1..n : \A b \in a..n :
                        ~IsJsonObject(SubSeq(llm_output, a, b))
    IN (analysis.kind \in {"parsed", "fallback"} /\ NoObject) =>
          /\ analysis.kind = "fallback"
          /\ analysis.raw_response = llm_output
          /\ analysis.parsing_failed

\* C23: when the first balanced-brace substring of the LLM's answer is an
\* object json.loads accepts, the node returns the parsed value of that
\* substring, whatever text follows it.
C23_FirstBalancedObjectIsParsed ==
    LET RECURSIVE BalancedEnd(_, _, _)
        \* the position where the brace depth d comes back to 0 from p on
        BalancedEnd(s, p, d) ==
            IF p > Len(s) THEN 0
            ELSE LET d2 == d + (IF s[p] = "{" THEN 1
                                ELSE IF s[p] = "}" THEN 0 - 1 ELSE 0)
                 IN IF d2 = 0 THEN p ELSE BalancedEnd(s, p + 1, d2)
        opens == {p \in 1..Len(llm_output) : llm_output[p] = "{"}
        a == IF opens = {} THEN 0
             ELSE CHOOSE p \in opens : \A q \in opens : p <= q
        b == IF a = 0 THEN 0 ELSE BalancedEnd(llm_output, a, 0)
        first == IF b = 0 THEN <<>> ELSE SubSeq(llm_output, a, b)
    IN (analysis.kind \in {"parsed", "fallback"} /\ IsJsonObject(first)) =>
          /\ analysis.kind = "parsed"
          /\ analysis.value = json_loads(first)

\* C24: when an exception has left the workflow after k entries were
\* persisted, the job's status is error, an error event and then the end
\* marker were put on its queue and the job's results are those k entries.
C24_FailedJobKeepsPersistedEntries ==
    (pc = "failed") =>
        /\ status = "error"
        /\ queue = <<"error", "_stream_end">>
        /\ jobResults = results

\* C25: the queue of a job holds at most one end marker, nothing is put
\* after it, and a job whose run_job ended has one.
C25_OneEndMarkerLast ==
    LET ends == {p \in 1..Len(queue) : queue[p] = "_stream_end"}
    IN /\ Cardinality(ends) <= 1
       /\ ends # {} => queue[Len(queue)] = "_stream_end"
       /\ pc \in {"done", "failed"} => ends # {}

\* C26: after a node execution in which a stage failed for the item while
\* the job goes on (navigation, extraction, sentiment, themes, the write of
\* the report), the events of that execution hold one with the stage's step
\* and status error and none with that step and status done.
C26_FailedStageEmitsErrorNotDone ==
    LET Failed(step) ==
            /\ Ev(step, current_asin, "error") \in Range(emitted)
            /\ Ev(step, current_asin, "done") \notin Range(emitted)
        afterScrape == /\ pc \in {"scrape_product", "persist_result"}
                       /\ routed # Null
                       /\ ~scraping_success
    IN /\ (afterScrape /\ scraping_errors = <<NavError>>)
              => Failed("navigate_product")
       /\ (afterScrape /\ scraping_errors \in {<<CoreError>>, <<ExcError>>})
              => Failed("scrape_reviews")
       /\ (pc = "theme_analysis" /\ sentiment_analysis = "placeholder")
              => Failed("llm_sentiment")
       /\ (pc = "build_report" /\ theme_analysis = "placeholder")
              => Failed("llm_themes")
       /\ (pc = "advance_index" /\ results[Len(results)].success
             /\ results[Len(results)].path = Null)
              => Failed("report_saved")

\* C27: the block recovery of scrape_product (re-login and second
\* navigation) is performed once for each block detected after a failed
\* navigation and never otherwise, and at most once for an identifier
\* (stated for the first identifier of the job, while no entry is persisted).
C27_RecoveryOncePerIdentifier ==
    /\ relogins = blocks
    /\ Len(results) = 0 => relogins <= 1

\* C28: a job that ended done called the login routine once in
\* open_session_and_login and once more for every block it met (twice with one
\* block, once with none); and an execution of scrape_product that met a
\* block and then got the core data marks the item successful and sends it to
\* the analysis.
C28_LoginOncePlusOncePerBlock ==
    /\ [](pc = "done" => logins + relogins = 1 + blocks)
    /\ [][(blocks' = blocks + 1 /\ has_core(scraped_data')) =>
             (scraping_success' /\ pc' = "sentiment_analysis")]_vars

C28_Witness ==
    /\ pc = "done"
    /\ blocks = 1
    /\ logins + relogins = 2
    /\ Len(results) = Len(asins)
    /\ \A k \in 1..Len(results) : results[k].success /\ results[k].path # Null

\* C29: an entry of results with success = false has no path and exactly one
\* error, an entry with success = true has no error, so success is the same
\* as an empty error list; and a successful item is persisted with its report
\* built, so that its path is null only when the write failed.
C29_SuccessIffNoError ==
    /\ [](\A k \in 1..Len(results) :
            /\ results[k].success <=> results[k].errors = <<>>
            /\ ~results[k].success =>
                  (results[k].path = Null /\ Len(results[k].errors) = 1))
    /\ [][(pc = "persist_result" /\ pc' = "advance_index" /\ scraping_success)
             => final_report.built]_vars

C29_Witness ==
    /\ Len(results) = 2
    /\ results[1].success
    /\ results[1].path # Null
    /\ results[1].errors = <<>>
    /\ ~results[2].success
    /\ results[2].path = Null
    /\ results[2].errors = <<CoreError>>

\* C30: an item whose core data was obtained is marked successful by
\* scrape_product and sent to the analysis whatever the review extraction
\* did; the analysis nodes and build_report leave the flag alone; and
\* persist_result appends its entry with success = true and a built report
\* whatever the analyses returned.
C30_AnalysisNeverChangesSuccess ==
    /\ [][(pc = "scrape_product" /\ attempts' = attempts + 1 /\ raised' = Null
             /\ has_core(scraped_data'))
             => (scraping_success' /\ pc' = "sentiment_analysis")]_vars
    /\ [][(pc \in {"sentiment_analysis", "theme_analysis", "build_report"})
             => (scraping_success' = scraping_success)]_vars
    /\ [][(pc = "persist_result" /\ pc' = "advance_index"
             /\ has_core(scraped_data))
             => /\ Len(results') = Len(results) + 1
                /\ results'[Len(results')].success
                /\ final_report.built]_vars

C30_Witness ==
    /\ pc = "advance_index"
    /\ has_core(scraped_data)
    /\ scraped_data.reviews = 0
    /\ sentiment_analysis = "placeholder"
    /\ theme_analysis = "placeholder"
    /\ results[Len(results)].success
    /\ results[Len(results)].path # Null

\* C31: for an item scraped with success the nodes run in the order
\* sentiment, themes, build_report, persist_result, advance_index, one after
\* the other and each once: every step taken from one of them leads to the
\* next, the sentiment events are running then done before the themes
\* events, and the analysis is called twice for the item.
C31_AnalysisChainRunsInOrder ==
    [][/\ (pc = "sentiment_analysis") =>
             /\ pc' = "theme_analysis"
             /\ analysisCalls' = 1
             /\ emitted' = <<Ev("llm_sentiment", current_asin, "running"),
                             Ev("llm_sentiment", current_asin, "done")>>
       /\ (pc = "theme_analysis") =>
             /\ pc' = "build_report"
             /\ analysisCalls' = 2
             /\ emitted' = <<Ev("llm_themes", current_asin, "running"),
                             Ev("llm_themes", current_asin, "done")>>
       /\ (pc = "build_report") => (pc' = "persist_result")
       /\ (pc = "persist_result" /\ scraping_success) =>
             (pc' = "advance_index" /\ Len(results') = Len(results) + 1)
       /\ (pc = "advance_index") => (pc' = "pick_next_asin")]_vars

\* C32: _goto_product_with_retries tries the candidates in their order
\* within each attempt, returns True at the first candidate that reaches the
\* loaded signal without trying anything further, and returns False only
\* after max_attempts times all candidates failed.
C32_NavigationTriesInOrderUntilLoaded ==
    LET gotos == SelectSeq(nav_trace, LAMBDA e : e.ev = "goto")
        n == Len(gotos)
    IN /\ \A k \in 1..n :
            /\ gotos[k].attempt = ((k - 1) \div NumUrls) + 1
            /\ gotos[k].url = ((k - 1) % NumUrls) + 1
            /\ gotos[k].outcome = "loaded" =>
                  (k = n /\ nav_result = "true"
                     /\ nav_trace[Len(nav_trace)] = gotos[n])
       /\ nav_result = "true" => (n > 0 /\ gotos[n].outcome = "loaded")
       /\ nav_result = "false" => n = max_attempts * NumUrls
       /\ nav_result \in {"idle", "running", "true", "false"}

C32_Witness ==
    /\ nav_result = "true"
    /\ max_attempts = 3
    /\ Len(SelectSeq(nav_trace, LAMBDA e : e.ev = "goto")) = 4
    /\ nav_trace[1].outcome = "goto_raises"
    /\ nav_trace[2].outcome = "no_signal"

\* C33: _goto_product_with_retries sleeps only between two attempts: after
\* a total failure with n attempts it slept n - 1 times, never after the
\* last attempt, the first sleep is the initial backoff and each sleep is
\* longer than the one before; a try is never followed by a sleep inside an
\* attempt and nothing follows a loaded page.
C33_SleepOnlyBetweenAttempts ==
    LET sleeps == SelectSeq(nav_trace, LAMBDA e : e.ev = "sleep")
        m == Len(sleeps)
    IN /\ m > 0 => sleeps[1].backoff = InitialBackoff
       /\ \A k \in 1..(m - 1) : sleeps[k].backoff < sleeps[k + 1].backoff
       /\ \A k \in 1..Len(nav_trace) :
            nav_trace[k].ev = "sleep" =>
               (k > 1 /\ nav_trace[k - 1].ev = "goto"
                  /\ nav_trace[k - 1].url = NumUrls
                  /\ nav_trace[k - 1].outcome # "loaded")
       /\ nav_result = "false" =>
             (m = max_attempts - 1 /\ nav_trace[Len(nav_trace)].ev = "goto")

\* C34: i changes only in advance_index and by +1, results changes only in
\* persist_result and by one appended entry, and whenever the machine is at
\* pick_next_asin the number of entries equals i.
C34_CursorAndResultsMoveTogether ==
    /\ [](pc = "pick_next_asin" => Len(results) = i)
    /\ [][/\ (i' # i) => (pc = "advance_index" /\ i' = i + 1)
          /\ (results' # results) =>
                /\ pc = "persist_result"
                /\ Len(results') = Len(results) + 1
                /\ SubSeq(results', 1, Len(results)) = results]_vars

C34_Witness ==
    /\ pc = "pick_next_asin"
    /\ i = 2
    /\ Len(results) = 2
    /\ ~results[1].success
    /\ results[2].success

\* C35: pick_next_asin with i inside the list selects asins[i], resets the
\* state of the item (errors, retries, scraped data, analyses, report) and
\* leaves i, results, auth_ok and the session alone; with i at the end it
\* changes nothing and routes to finalize.  So the entry of a failed item
\* never has the title, rating or path of an earlier item.
C35_PickNextResetsTheItem ==
    /\ [][(pc = "pick_next_asin" /\ steps' = steps + 1) =>
            /\ UNCHANGED <<asins, i, results, auth_ok, sessions>>
            /\ IF i < Len(asins)
               THEN /\ current_asin' = asins[i + 1]
                    /\ scraped_data' = EmptyData
                    /\ ~scraping_success'
                    /\ scraping_errors' = <<>>
                    /\ retries' = 0
                    /\ sentiment_analysis' = Null
                    /\ theme_analysis' = Null
                    /\ final_report' = NoReport
                    /\ pc' = "scrape_product"
               ELSE /\ UNCHANGED stateVars
                    /\ pc' = "finalize"]_vars
    /\ [](\A k \in 1..Len(results) :
            ~results[k].success =>
                /\ results[k].title = Placeholder
                /\ results[k].rating_average = 0
                /\ results[k].path = Null)

C35_Witness ==
    /\ Len(results) = 2
    /\ results[1].success
    /\ results[1].title = "T"
    /\ results[1].rating_average = 4
    /\ results[1].path # Null
    /\ ~results[2].success
    /\ results[2].title = Placeholder
    /\ results[2].rating_average = 0
    /\ results[2].path = Null

\* C36: once a job has ended, done, in error or cancelled, the registry
\* holds no session under the job's session id.
C36_EndedJobLeavesNoSession ==
    (pc \in {"done", "failed", "cancelled"} /\ status \in FinalStatuses) =>
        session_id \notin DOMAIN sessions

\* C37: the browser a job works with runs in the headless mode the job
\* asked for
C37_JobBrowserHasJobHeadlessMode ==
    \A j \in DOMAIN jpc :
        /\ jscraper[j] # 0 => bheadless[jscraper[j]] = joptions[j]
        /\ jused[j] # 0 => bheadless[jused[j]] = joptions[j]

\* C38: a file written by one job is never replaced by a file of another
\* job: two jobs never write to the same path
C38_NoFileOverwrittenByAnotherJob ==
    [][\A f \in files : \A g \in files' :
          (PathOf(f) = PathOf(g)) => (g.job = f.job)]_vars

\* C40: a report get_report returns for a job was written by that job, for
\* an identifier the job processed
C40_ReportComesFromTheJobItself ==
    (response.code = 200) =>
        /\ response.writer = response.job
        /\ \E k \in DOMAIN fasins[response.job] :
               fasins[response.job][k] = response.asin

\* C39: when a job that was not cancelled has ended, every event with status
\* running among the events of its last node execution is followed there by
\* an event of the same step and identifier with status done or error (the
\* events of the last node execution are the last events before the end
\* marker)
C39_RunningEventIsClosed ==
    LET closes(e, d) == /\ d.step = e.step
                        /\ d.asin = e.asin
                        /\ d.status \in {"done", "error"}
    IN  (pc \in {"done", "failed"} /\ ~cancelRequested
            /\ status \in FinalStatuses) =>
            \A k \in 1..Len(emitted) :
                emitted[k].status = "running" =>
                    \E m \in (k + 1)..Len(emitted) : closes(emitted[k], emitted[m])

====
